---- MODULE Spec2Model ----
(***************************************************************************)
(* A model of the libdns provider for ACMEProxy (provider.go).             *)
(*                                                                         *)
(* Strings are sequences of tokens.  A token is one character ("n", ".",   *)
(* "/") or, where the code only ever handles a text as a whole, the whole  *)
(* text ("present", "ACMEProxy provider could not ").  Concatenation,      *)
(* prefix, suffix and splitting then work as they do on Go strings.        *)
(* The token "xFF" is a byte that is not valid UTF-8 and "uFFFD" is the    *)
(* Unicode replacement character.                                          *)
(***************************************************************************)
EXTENDS Integers, Sequences, FiniteSets, TLC

VARIABLES provider, calls

vars == <<provider, calls>>

\* ------------------------------------------------------------------ bounds

\* Longest batch of records the caller passes.
MaxRecords == 3

\* Longest batch of records each of two concurrent callers passes.
MaxConcRecords == 2

\* http.StatusOK
StatusOK == 200

\* ------------------------------------------------------------ string helpers

HasPrefix(s, p) == Len(s) >= Len(p) /\ SubSeq(s, 1, Len(p)) = p

HasSuffix(s, p) == Len(s) >= Len(p) /\ SubSeq(s, Len(s) - Len(p) + 1, Len(s)) = p

\* Whether sub occurs in s as a contiguous run of tokens.
Contains(s, sub) ==
    \E i \in 0..(Len(s) - Len(sub)) : SubSeq(s, i + 1, i + Len(sub)) = sub

\* Index of the first occurrence of token ch in s, 0 when there is none.
IndexOf(s, ch) ==
    IF \E i \in 1..Len(s) : s[i] = ch
    THEN CHOOSE i \in 1..Len(s) : s[i] = ch /\ \A j \in 1..(i - 1) : s[j] # ch
    ELSE 0

RECURSIVE TrimLeft(_, _)
TrimLeft(s, ch) ==
    IF Len(s) > 0 /\ s[1] = ch THEN TrimLeft(Tail(s), ch) ELSE s

RECURSIVE TrimRight(_, _)
TrimRight(s, ch) ==
    IF Len(s) > 0 /\ s[Len(s)] = ch THEN TrimRight(SubSeq(s, 1, Len(s) - 1), ch) ELSE s

\* strings.Trim(s, ch)
Trim(s, ch) == TrimRight(TrimLeft(s, ch), ch)

\* ----------------------------------------------------------- libdns helpers

\* libdns.AbsoluteName(name, zone), called at provider.go:61 and :100.
AbsoluteName(name, zone) ==
    IF zone = <<>> THEN Trim(name, ".")
    ELSE IF name = <<>> \/ name = <<"@">> THEN zone
    ELSE IF ~HasSuffix(name, <<".">>) THEN name \o <<".">> \o zone
    ELSE name \o zone

\* --------------------------------------------------------------- net/url

Letters == {"h", "x", "a"}

NoURL == [ok |-> FALSE, Scheme |-> <<>>, Opaque |-> <<>>, Host |-> <<>>, Path |-> <<>>]

\* url.getScheme, from position i on: the text before the first ":" when it is
\* made of letters only; a ":" in first place is an error ("missing protocol
\* scheme"); any other character means there is no scheme.
RECURSIVE getScheme(_, _)
getScheme(raw, i) ==
    IF i > Len(raw) THEN [ok |-> TRUE, scheme |-> <<>>, rest |-> raw]
    ELSE IF raw[i] \in Letters THEN getScheme(raw, i + 1)
    ELSE IF raw[i] = ":"
         THEN IF i = 1 THEN [ok |-> FALSE, scheme |-> <<>>, rest |-> <<>>]
              ELSE [ok |-> TRUE, scheme |-> SubSeq(raw, 1, i - 1),
                    rest |-> SubSeq(raw, i + 1, Len(raw))]
    ELSE [ok |-> TRUE, scheme |-> <<>>, rest |-> raw]

\* url.ParseRequestURI(p.Endpoint), provider.go:120.  The empty string is an
\* error; a text with a scheme and no leading "/" is an opaque URL
\* (scheme:opaque), which is accepted; a text with neither is an error.
ParseRequestURI(raw) ==
    IF raw = <<>> THEN NoURL
    ELSE LET s == getScheme(raw, 1) IN
         IF ~s.ok THEN NoURL
         ELSE IF ~HasPrefix(s.rest, <<"/">>)
              THEN IF s.scheme # <<>>
                   THEN [NoURL EXCEPT !.ok = TRUE, !.Scheme = s.scheme, !.Opaque = s.rest]
                   ELSE NoURL
         ELSE IF s.scheme # <<>> /\ HasPrefix(s.rest, <<"/", "/">>)
              THEN LET authority == SubSeq(s.rest, 3, Len(s.rest))
                       i == IndexOf(authority, "/")
                   IN [NoURL EXCEPT !.ok = TRUE, !.Scheme = s.scheme,
                         !.Host = IF i = 0 THEN authority ELSE SubSeq(authority, 1, i - 1),
                         !.Path = IF i = 0 THEN <<>> ELSE SubSeq(authority, i, Len(authority))]
         ELSE [NoURL EXCEPT !.ok = TRUE, !.Scheme = s.scheme, !.Path = s.rest]

\* The non-empty segments of a path, split at "/".
RECURSIVE Segments(_)
Segments(s) ==
    IF s = <<>> THEN <<>>
    ELSE LET i == IndexOf(s, "/") IN
         IF i = 0 THEN <<s>>
         ELSE (IF i = 1 THEN <<>> ELSE <<SubSeq(s, 1, i - 1)>>)
              \o Segments(SubSeq(s, i + 1, Len(s)))

RECURSIVE JoinSegments(_)
JoinSegments(segs) ==
    IF segs = <<>> THEN <<>>
    ELSE IF Len(segs) = 1 THEN segs[1]
    ELSE segs[1] \o <<"/">> \o JoinSegments(Tail(segs))

\* path.Clean on paths without "." and ".." segments: repeated slashes
\* collapse and a trailing slash goes.
Clean(p) ==
    LET body == JoinSegments(Segments(p))
        out == IF HasPrefix(p, <<"/">>) THEN <<"/">> \o body ELSE body
    IN IF out = <<>> THEN <<".">> ELSE out

\* (*url.URL).JoinPath(action), provider.go:124.  Only the Path changes.
JoinPath(u, action) ==
    [u EXCEPT !.Path =
        IF ~HasPrefix(u.Path, <<"/">>)
        THEN Tail(Clean(<<"/">> \o u.Path \o <<"/">> \o action))
        ELSE Clean(u.Path \o <<"/">> \o action)]

\* (*url.URL).String(), provider.go:70.  An opaque URL is written as
\* scheme:opaque and its Path is not written at all.
URLString(u) ==
    (IF u.Scheme # <<>> THEN u.Scheme \o <<":">> ELSE <<>>)
    \o (IF u.Opaque # <<>> THEN u.Opaque
        ELSE (IF u.Host # <<>> THEN <<"/", "/">> \o u.Host ELSE <<>>)
             \o (IF u.Path # <<>> /\ u.Path[1] # "/" /\ u.Host # <<>> THEN <<"/">> ELSE <<>>)
             \o u.Path)

\* ---------------------------------------------------------- encoding/json

\* encoding/json writes a string coerced to valid UTF-8, and reads one the
\* same way: every invalid byte becomes U+FFFD.
RECURSIVE Coerce(_)
Coerce(s) ==
    IF s = <<>> THEN <<>>
    ELSE <<IF Head(s) = "xFF" THEN "uFFFD" ELSE Head(s)>> \o Coerce(Tail(s))

\* A JSON document on the wire: json says whether it parses as an object, obj
\* is the object's members as <<key, string>> pairs.
Garbage == [json |-> FALSE, obj |-> {}]

\* json.NewEncoder(reqBody).Encode(msg), provider.go:60-67, for the struct
\* acmeProxy (provider.go:20-23).  Encoding two strings cannot fail.
Encode(msg) ==
    [json |-> TRUE, obj |-> {<<"FQDN", Coerce(msg.FQDN)>>, <<"Value", Coerce(msg.Value)>>}]

\* encoding/json matches an object key to a struct field ignoring case.
KeyOf(k) ==
    IF k \in {"FQDN", "fqdn"} THEN "FQDN"
    ELSE IF k \in {"Value", "value"} THEN "Value"
    ELSE k

\* The string member of obj for struct field f; the zero value "" when the
\* object has none.
Member(obj, f) ==
    IF \E m \in obj : KeyOf(m[1]) = f
    THEN Coerce((CHOOSE m \in obj : KeyOf(m[1]) = f)[2])
    ELSE <<>>

\* json.NewDecoder(resp.Body).Decode(&respMsg), provider.go:95-98.
Decode(body) ==
    [ok |-> body.json,
     msg |-> [FQDN |-> Member(body.obj, "FQDN"), Value |-> Member(body.obj, "Value")]]

\* ------------------------------------------------------------------ errors

\* An error value: nil, or a message.
NoErr == [nil |-> TRUE, msg |-> <<>>]

Err(msg) == [nil |-> FALSE, msg |-> msg]

\* %q
Quote(s) == <<"\"">> \o s \o <<"\"">>

\* %d
RECURSIVE Digits(_)
Digits(n) ==
    LET d == <<"0", "1", "2", "3", "4", "5", "6", "7", "8", "9">> IN
    IF n < 10 THEN <<d[n + 1]>> ELSE Digits(n \div 10) \o <<d[(n % 10) + 1]>>

\* ------------------------------------------------------- provider.go: data

\* The HTTPClient field is nil or the caller's own client.
Nil == "nil"

DefaultClient == "http.DefaultClient"

CustomClient == "custom"

\* Provider (provider.go:33-42) with its embedded Credentials (27-30).
NewProvider(endpoint, user, pass, client) ==
    [Endpoint |-> endpoint, Username |-> user, Password |-> pass, HTTPClient |-> client]

\* A libdns.Record.
Record(id, type, name, value, ttl) ==
    [ID |-> id, Type |-> type, Name |-> name, Value |-> value, TTL |-> ttl]

\* A returned []libdns.Record: the nil slice, or a slice with its elements.
NilSlice == [isNil |-> TRUE, recs |-> <<>>]

Slice(recs) == [isNil |-> FALSE, recs |-> recs]

\* The state of one call of a Provider method.  pc is the method or the place
\* in doActions the call is at; sent and resps are the requests the call has
\* handed to HTTPClient.Do and what Do returned for them, client is the client
\* they were handed to.
IdleCall ==
    [pc |-> "idle", op |-> "", action |-> <<>>, zone |-> <<>>, records |-> <<>>,
     endpoint |-> NoURL, completedRecords |-> <<>>, idx |-> 1,
     ret |-> NilSlice, err |-> NoErr, client |-> Nil, sent |-> <<>>, resps |-> <<>>]

\* ------------------------------------------------- provider.go: the methods

\* A slip: the default client is stored in the Provider on first use.
getClientStoresDefault(p) ==
    [client |-> IF p.HTTPClient = Nil THEN DefaultClient ELSE p.HTTPClient,
     p |-> IF p.HTTPClient = Nil THEN [p EXCEPT !.HTTPClient = DefaultClient] ELSE p]

\* getClient (provider.go:44-49): the client to use, and the Provider as the
\* method leaves it (it has a pointer receiver).
getClient(p) ==
    [client |-> IF p.HTTPClient = Nil THEN DefaultClient ELSE p.HTTPClient, p |-> p]

\* A slip: the type compared without regard to case.
unsupportedTypeAnyCase(record) == record.Type \notin {"TXT", "txt", "Txt"}

\* provider.go:53: the record types doAction refuses.
unsupportedType(record) == record.Type # "TXT"

\* provider.go:60-63: the message for a record.
message(zone, record) ==
    [FQDN |-> AbsoluteName(record.Name, zone), Value |-> record.Value]

\* provider.go:78-80: Basic Auth is set when either credential is non-empty.
basicAuth(p) ==
    IF p.Username # <<>> \/ p.Password # <<>>
    THEN [set |-> TRUE, user |-> p.Username, pass |-> p.Password]
    ELSE [set |-> FALSE, user |-> <<>>, pass |-> <<>>]

\* provider.go:57-80: the request doAction builds.  The URL is one that was
\* parsed, so http.NewRequestWithContext does not fail.
newRequest(p, endpoint, zone, record) ==
    [Method |-> "POST", URL |-> URLString(endpoint),
     Accept |-> "application/json", ContentType |-> "application/json",
     Auth |-> basicAuth(p), Body |-> Encode(message(zone, record))]

\* A slip: the echoed Value is not compared.
validateWithoutValue(resp, zone, record) ==
    IF resp.err
    THEN Err(<<"ACMEProxy provider could not send request: ">> \o resp.errmsg)
    ELSE IF resp.status # StatusOK
    THEN Err(<<"ACMEProxy provider received status code ">> \o Digits(resp.status))
    ELSE LET d == Decode(resp.body) IN
         IF ~d.ok
         THEN Err(<<"ACMEProxy provider could not unmarshal JSON: ", "invalid character">>)
         ELSE IF d.msg.FQDN # AbsoluteName(record.Name, zone)
         THEN Err(<<"ACMEProxy provider received unexpected FQDN ">> \o Quote(d.msg.FQDN))
         ELSE NoErr

\* provider.go:84-107: the error doAction finds in what Do returned, or nil.
validate(resp, zone, record) ==
    IF resp.err
    THEN Err(<<"ACMEProxy provider could not send request: ">> \o resp.errmsg)
    ELSE IF resp.status # StatusOK
    THEN Err(<<"ACMEProxy provider received status code ">> \o Digits(resp.status))
    ELSE LET d == Decode(resp.body) IN
         IF ~d.ok
         THEN Err(<<"ACMEProxy provider could not unmarshal JSON: ", "invalid character">>)
         ELSE IF d.msg.FQDN # AbsoluteName(record.Name, zone)
         THEN Err(<<"ACMEProxy provider received unexpected FQDN ">> \o Quote(d.msg.FQDN))
         ELSE IF d.msg.Value # record.Value
         THEN Err(<<"ACMEProxy provider received unexpected Value ">> \o Quote(d.msg.Value))
         ELSE NoErr

\* A slip: the TTL is left out of the returned record.
completedWithoutTTL(record) ==
    Record(record.ID, "TXT", record.Name, record.Value, 0)

\* provider.go:109-115: the record doAction returns on success.
completed(record) ==
    Record(record.ID, "TXT", record.Name, record.Value, record.TTL)

\* A slip: the error is wrapped without the record's name.
wrapWithoutName(action, record, err) ==
    Err(<<"ACMEProxy provider could not ">> \o action \o <<" record: ">> \o err.msg)

\* provider.go:133: the error doActions returns for a failed record.
wrap(action, record, err) ==
    Err(<<"ACMEProxy provider could not ">> \o action \o <<" record ">>
        \o Quote(record.Name) \o <<": ">> \o err.msg)

\* A slip: the completed records are dropped when a record fails.
failRecordDropsCompleted(cl, err) ==
    [cl EXCEPT !.pc = "done", !.ret = NilSlice,
               !.err = Err(<<"ACMEProxy provider could not ">> \o cl.action
                           \o <<" record ">> \o Quote(cl.records[cl.idx].Name)
                           \o <<": ">> \o err.msg)]

\* provider.go:132-134: a record failed; the call returns what it completed.
failRecord(cl, err) ==
    [cl EXCEPT !.pc = "done", !.ret = Slice(cl.completedRecords),
               !.err = wrap(cl.action, cl.records[cl.idx], err)]

\* A slip: the loop does not move on to the next record.
completeRecordAgain(cl, rec) ==
    [cl EXCEPT !.pc = "loop", !.completedRecords = Append(@, rec)]

\* provider.go:136 and the loop's step: the record is added, the next is due.
completeRecord(cl, rec) ==
    [cl EXCEPT !.pc = "loop", !.completedRecords = Append(@, rec), !.idx = @ + 1]

\* A slip: an invalid endpoint returns the empty list, not nil.
doActionsEnterEmptyList(cl, p) ==
    LET uri == ParseRequestURI(p.Endpoint) IN
    IF ~uri.ok
    THEN [cl EXCEPT !.pc = "done", !.ret = Slice(<<>>),
                    !.err = Err(<<"ACMEProxy provider invalid endpoint ", "[">> \o p.Endpoint
                                \o <<"]", ": ", "parse error">>)]
    ELSE [cl EXCEPT !.pc = "loop", !.endpoint = JoinPath(uri, cl.action),
                    !.completedRecords = <<>>, !.idx = 1]

\* provider.go:120-129: doActions up to its loop.
doActionsEnter(cl, p) ==
    LET uri == ParseRequestURI(p.Endpoint) IN
    IF ~uri.ok
    THEN [cl EXCEPT !.pc = "done", !.ret = NilSlice,
                    !.err = Err(<<"ACMEProxy provider invalid endpoint ", "[">> \o p.Endpoint
                                \o <<"]", ": ", "parse error">>)]
    ELSE [cl EXCEPT !.pc = "loop", !.endpoint = JoinPath(uri, cl.action),
                    !.completedRecords = <<>>, !.idx = 1]

\* provider.go:130-131 and 51-83: the loop takes the next record, or returns
\* when there is none; doAction refuses the record or hands its request to Do.
doActionsNext(cl, p) ==
    IF cl.idx > Len(cl.records)
    THEN [cl EXCEPT !.pc = "done", !.ret = Slice(cl.completedRecords), !.err = NoErr]
    ELSE LET record == cl.records[cl.idx] IN
         IF unsupportedType(record)
         THEN failRecord(cl, Err(<<"ACMEProxy provider only supports TXT records">>))
         ELSE [cl EXCEPT !.pc = "Do", !.client = getClient(p).client,
                         !.sent = Append(@, newRequest(p, cl.endpoint, cl.zone, record))]

\* provider.go:83-115 and 132-137: Do has returned resp.
doActionsResume(cl, resp) ==
    LET record == cl.records[cl.idx]
        err == validate(resp, cl.zone, record)
        seen == [cl EXCEPT !.resps = Append(@, resp)]
    IN IF err.nil THEN completeRecord(seen, completed(record))
       ELSE failRecord(seen, err)

\* A slip: GetRecords returns an empty list.
getRecordsEmptyList(cl) ==
    [cl EXCEPT !.pc = "done", !.ret = Slice(<<>>),
               !.err = Err(<<"ACMEProxy provider does not support listing records">>)]

\* provider.go:143-145
getRecords(cl) ==
    [cl EXCEPT !.pc = "done", !.ret = NilSlice,
               !.err = Err(<<"ACMEProxy provider does not support listing records">>)]

\* provider.go:149-151
appendRecords(cl) == [cl EXCEPT !.pc = "SetRecords"]

\* provider.go:155-157
setRecords(cl) == [cl EXCEPT !.pc = "doActions", !.action = <<"present">>]

\* provider.go:160-162
deleteRecords(cl) == [cl EXCEPT !.pc = "doActions", !.action = <<"cleanup">>]

\* ------------------------------------------------------------ environment

\* The server's endpoint.
Server == <<"h", ":", "/", "/", "x">>

\* The Providers of the sequential specification.  Their endpoints are the
\* empty string, a word, a text starting with ":", an opaque URL (the slashes
\* forgotten), the server, the server with a trailing slash, the server with
\* a path, and a rooted path.  The server has the default client, the others
\* the caller's own; three have credentials (both, the username only, the
\* password only); the last is the zero Provider of provider_test.go.
Providers ==
    {NewProvider(e, <<>>, <<>>, CustomClient) :
        e \in {<<>>, <<"x">>, <<":", "x">>, <<"h", ":", "x">>}}
    \cup {NewProvider(Server, <<>>, <<>>, Nil),
          NewProvider(<<"h", ":", "/", "/", "x", "/">>, <<"u">>, <<"p">>, CustomClient),
          NewProvider(<<"h", ":", "/", "/", "x", "/", "a">>, <<"u">>, <<>>, CustomClient),
          NewProvider(<<"/", "a">>, <<>>, <<"p">>, CustomClient),
          NewProvider(<<>>, <<>>, <<>>, Nil)}

\* The records callers pass: two TXT records (a relative name, the zone
\* apex), two records of another type ("txt", ""), and a TXT record whose
\* value is not valid UTF-8.
Pool ==
    {Record("1", "TXT", <<"n">>, <<"v">>, 300),
     Record("2", "TXT", <<"@">>, <<"w">>, 0),
     Record("3", "txt", <<"n">>, <<"v">>, 300),
     Record("4", "", <<"n", ".">>, <<"w">>, 0),
     Record("5", "TXT", <<"n", ".">>, <<"xFF">>, 60)}

Zones == {<<"z", ".">>, <<>>}

Ops == {"GetRecords", "AppendRecords", "SetRecords", "DeleteRecords"}

\* The batches of at most max records of pool.
Batches(pool, max) == UNION {[1..n -> pool] : n \in 0..max}

Object(members) == [json |-> TRUE, obj |-> members]

Response(status, body) == [err |-> FALSE, errmsg |-> <<>>, status |-> status, body |-> body]

TransportError ==
    [err |-> TRUE, errmsg |-> <<"connection refused">>, status |-> 0, body |-> Garbage]

\* What HTTPClient.Do may return for a request: a transport error (a
\* cancelled context included), or a response of the proxy: 200 or 500, with
\* a body that echoes the request, is no JSON, lacks the Value, changes the
\* FQDN or the Value, or echoes under lower-case keys.
Responses(req) ==
    LET fqdn == Member(req.Body.obj, "FQDN")
        value == Member(req.Body.obj, "Value")
        bodies ==
            {req.Body, Garbage, Object({<<"FQDN", fqdn>>}),
             Object({<<"FQDN", fqdn \o <<"x">>>>, <<"Value", value>>}),
             Object({<<"FQDN", fqdn>>, <<"Value", value \o <<"x">>>>}),
             Object({<<"fqdn", fqdn>>, <<"value", value>>})}
    IN {TransportError}
       \cup {Response(StatusOK, b) : b \in bodies}
       \cup {Response(500, req.Body)}

\* The answers of Do where two callers run: a transport error, the echo, a
\* 500 or a changed Value.
ConcResponses(req) ==
    {TransportError, Response(StatusOK, req.Body), Response(500, req.Body),
     Response(StatusOK, Object({<<"FQDN", Member(req.Body.obj, "FQDN")>>,
                                <<"Value", Member(req.Body.obj, "Value") \o <<"x">>>>}))}

\* What Do may return for req: every answer, or the few of the concurrent
\* specification.
Answers(req, every) == IF every THEN Responses(req) ELSE ConcResponses(req)

\* ------------------------------------------------------------------ actions

Step(c, cl) == calls' = [calls EXCEPT ![c] = cl]

\* A caller calls one of the four methods.
Invoke(c, zones, pool, max) ==
    /\ calls[c].pc = "idle"
    /\ \E op \in Ops, zone \in zones, records \in Batches(pool, max) :
          /\ op = "GetRecords" => records = <<>>
          /\ Step(c, [IdleCall EXCEPT !.pc = op, !.op = op, !.zone = zone,
                                      !.records = records])
    /\ UNCHANGED provider

GetRecords(c) ==
    /\ calls[c].pc = "GetRecords"
    /\ Step(c, getRecords(calls[c]))
    /\ UNCHANGED provider

AppendRecords(c) ==
    /\ calls[c].pc = "AppendRecords"
    /\ Step(c, appendRecords(calls[c]))
    /\ UNCHANGED provider

SetRecords(c) ==
    /\ calls[c].pc = "SetRecords"
    /\ Step(c, setRecords(calls[c]))
    /\ UNCHANGED provider

DeleteRecords(c) ==
    /\ calls[c].pc = "DeleteRecords"
    /\ Step(c, deleteRecords(calls[c]))
    /\ UNCHANGED provider

DoActionsEnter(c) ==
    /\ calls[c].pc = "doActions"
    /\ Step(c, doActionsEnter(calls[c], provider))
    /\ UNCHANGED provider

\* The loop's next turn.  When it sends a request, getClient has been called.
DoActionsNext(c) ==
    /\ calls[c].pc = "loop"
    /\ LET cl == doActionsNext(calls[c], provider) IN
          /\ Step(c, cl)
          /\ provider' = IF cl.pc = "Do" THEN getClient(provider).p ELSE provider

\* Do returns.
DoActionsResume(c, every) ==
    /\ calls[c].pc = "Do"
    /\ \E resp \in Answers(calls[c].sent[Len(calls[c].sent)], every) :
          Step(c, doActionsResume(calls[c], resp))
    /\ UNCHANGED provider

\* The call has returned; the caller may call again.
Return(c) ==
    /\ calls[c].pc = "done"
    /\ Step(c, IdleCall)
    /\ UNCHANGED provider

\* ----------------------------------------------------------- specifications

\* One caller, every Provider, every batch.
Init ==
    /\ provider \in Providers
    /\ calls = [c \in {1} |-> IdleCall]

Next ==
    \/ \E c \in DOMAIN calls : Invoke(c, Zones, Pool, MaxRecords)
    \/ \E c \in DOMAIN calls : GetRecords(c)
    \/ \E c \in DOMAIN calls : AppendRecords(c)
    \/ \E c \in DOMAIN calls : SetRecords(c)
    \/ \E c \in DOMAIN calls : DeleteRecords(c)
    \/ \E c \in DOMAIN calls : DoActionsEnter(c)
    \/ \E c \in DOMAIN calls : DoActionsNext(c)
    \/ \E c \in DOMAIN calls : DoActionsResume(c, TRUE)
    \/ \E c \in DOMAIN calls : Return(c)

Spec == Init /\ [][Next]_vars

\* Two callers on one Provider, their steps interleaved in every order.  The
\* Providers are the zero Provider, the server with the default client and
\* the server with credentials and the caller's client; the records are a TXT
\* record and a record of another type; Do returns one of four answers.
ConcProviders ==
    {NewProvider(<<>>, <<>>, <<>>, Nil),
     NewProvider(Server, <<>>, <<>>, Nil),
     NewProvider(Server, <<"u">>, <<"p">>, CustomClient)}

ConcPool ==
    {Record("1", "TXT", <<"n">>, <<"v">>, 300),
     Record("3", "txt", <<"n">>, <<"v">>, 300)}

ConcZones == {<<"z", ".">>}

InitConc ==
    /\ provider \in ConcProviders
    /\ calls = [c \in {1, 2} |-> IdleCall]

NextConc ==
    \/ \E c \in DOMAIN calls : Invoke(c, ConcZones, ConcPool, MaxConcRecords)
    \/ \E c \in DOMAIN calls : GetRecords(c)
    \/ \E c \in DOMAIN calls : AppendRecords(c)
    \/ \E c \in DOMAIN calls : SetRecords(c)
    \/ \E c \in DOMAIN calls : DeleteRecords(c)
    \/ \E c \in DOMAIN calls : DoActionsEnter(c)
    \/ \E c \in DOMAIN calls : DoActionsNext(c)
    \/ \E c \in DOMAIN calls : DoActionsResume(c, FALSE)
    \/ \E c \in DOMAIN calls : Return(c)

SpecConc == InitConc /\ [][NextConc]_vars

\* ===================================================================
\* Properties
\* ===================================================================

\* The call is one of the three batch operations.
Batch(cl) == cl.op \in {"AppendRecords", "SetRecords", "DeleteRecords"}

\* The configured endpoint passes doActions' validation.
ValidEndpoint == ParseRequestURI(provider.Endpoint).ok

\* Do returned, for the request of record, status 200 and a body that decodes
\* to the record's absolute name and value.
GoodEcho(resp, zone, record) ==
    /\ ~resp.err
    /\ resp.status = 200
    /\ resp.body.json
    /\ Member(resp.body.obj, "FQDN") = AbsoluteName(record.Name, zone)
    /\ Member(resp.body.obj, "Value") = record.Value

\* Record j of the call succeeded: it is a TXT record and Do returned a good
\* echo for it.
Succeeded(cl, j) ==
    /\ cl.records[j].Type = "TXT"
    /\ j <= Len(cl.resps)
    /\ GoodEcho(cl.resps[j], cl.zone, cl.records[j])

\* Record j of the call failed: it is no TXT record, or Do returned anything
\* but a good echo for it.
Failed(cl, j) ==
    \/ cl.records[j].Type # "TXT"
    \/ j <= Len(cl.resps) /\ ~GoodEcho(cl.resps[j], cl.zone, cl.records[j])

\* Record k is the first record of the call that failed.
FirstFailure(cl, k) ==
    /\ k \in 1..Len(cl.records)
    /\ Failed(cl, k)
    /\ \A j \in 1..(k - 1) : Succeeded(cl, j)

\* The result the specification promises for an input record.
Promised(record) == [record EXCEPT !.Type = "TXT"]

\* C1: when record k is the first record of a batch that fails, the call
\* returns a non-nil error and exactly the results of records 1..k-1, in input
\* order, and no request is issued for the records after k.
C1_FirstFailureStops ==
    \A c \in DOMAIN calls :
        LET cl == calls[c] IN
        \A k \in 1..Len(cl.records) :
            (Batch(cl) /\ cl.pc = "done" /\ ValidEndpoint /\ FirstFailure(cl, k)) =>
                /\ ~cl.err.nil
                /\ ~cl.ret.isNil
                /\ Len(cl.ret.recs) = k - 1
                /\ \A j \in 1..(k - 1) : cl.ret.recs[j] = Promised(cl.records[j])
                /\ Len(cl.sent) <= k
                /\ Len(cl.resps) <= k

\* A batch of three whose second record failed at the proxy: one record is
\* returned and the third was never sent.
C1_Witness ==
    \E c \in DOMAIN calls :
        LET cl == calls[c] IN
        /\ Batch(cl) /\ cl.pc = "done" /\ Len(cl.records) = 3
        /\ FirstFailure(cl, 2)
        /\ Len(cl.resps) = 2 /\ ~cl.resps[2].err
        /\ cl.records[3].Type = "TXT"
        /\ Len(cl.ret.recs) = 1

\* C2: a record whose Type is not exactly "TXT" is never sent and never
\* completed, and the batch that reaches it returns an error.
C2_NonTXTRejected ==
    \A c \in DOMAIN calls :
        LET cl == calls[c] IN
        \A j \in 1..Len(cl.records) :
            cl.records[j].Type # "TXT" =>
                /\ Len(cl.sent) < j
                /\ Len(cl.completedRecords) < j
                /\ Len(cl.ret.recs) < j
                /\ (cl.pc = "done" /\ Batch(cl) /\ ValidEndpoint
                    /\ \A i \in 1..(j - 1) : Succeeded(cl, i)) => ~cl.err.nil

\* A record of type "txt" was reached after a completed record and the call
\* returned an error.
C2_Witness ==
    \E c \in DOMAIN calls :
        LET cl == calls[c] IN
        /\ cl.pc = "done" /\ Len(cl.records) >= 2
        /\ cl.records[2].Type = "txt"
        /\ Succeeded(cl, 1)
        /\ ~cl.err.nil /\ Len(cl.sent) = 1 /\ Len(cl.ret.recs) = 1

C4_InvalidEndpointFailsFirst ==
    \A c \in DOMAIN calls :
        LET cl == calls[c] IN
        (Batch(cl) /\ ~ValidEndpoint) =>
            /\ cl.sent = <<>> /\ cl.resps = <<>>
            /\ cl.pc \notin {"loop", "Do"}
            /\ cl.idx = 1 /\ cl.completedRecords = <<>>
            /\ cl.pc = "done" => (cl.ret = NilSlice /\ ~cl.err.nil)

\* With an endpoint that is no request URI, a batch that starts with a record
\* of another type has returned.
C4_Witness ==
    \E c \in DOMAIN calls :
        LET cl == calls[c] IN
        /\ Batch(cl) /\ cl.pc = "done" /\ provider.Endpoint = <<"x">>
        /\ Len(cl.records) = 2 /\ cl.records[1].Type # "TXT"
        /\ cl.ret.isNil /\ ~cl.err.nil

\* C5: when every record of a batch succeeds, the call returns a nil error and
\* a list as long as the input whose i-th element has the ID, Name, Value and
\* TTL of the i-th record and Type "TXT"; the empty batch, on a valid
\* endpoint, returns the empty list and no error.
C5_AllSucceed ==
    \A c \in DOMAIN calls :
        LET cl == calls[c] IN
        (Batch(cl) /\ cl.pc = "done" /\ ValidEndpoint
         /\ \A j \in 1..Len(cl.records) : Succeeded(cl, j)) =>
            /\ cl.err.nil
            /\ ~cl.ret.isNil
            /\ Len(cl.ret.recs) = Len(cl.records)
            /\ \A i \in 1..Len(cl.records) :
                  /\ cl.ret.recs[i].ID = cl.records[i].ID
                  /\ cl.ret.recs[i].Name = cl.records[i].Name
                  /\ cl.ret.recs[i].Value = cl.records[i].Value
                  /\ cl.ret.recs[i].TTL = cl.records[i].TTL
                  /\ cl.ret.recs[i].Type = "TXT"

\* A batch of two succeeded; the first record's name is relative and differs
\* from the FQDN that was sent, and its TTL is not zero.
C5_Witness ==
    \E c \in DOMAIN calls :
        LET cl == calls[c] IN
        /\ Batch(cl) /\ cl.pc = "done" /\ cl.err.nil
        /\ Len(cl.records) = 2 /\ Len(cl.ret.recs) = 2
        /\ cl.ret.recs[1].Name # AbsoluteName(cl.records[1].Name, cl.zone)
        /\ cl.ret.recs[1].TTL # 0

\* C6: GetRecords returns the nil list and a non-nil error for every zone and
\* every Provider, and issues no request.
C6_GetRecordsUnsupported ==
    \A c \in DOMAIN calls :
        LET cl == calls[c] IN
        cl.op = "GetRecords" =>
            /\ cl.sent = <<>>
            /\ cl.pc \in {"GetRecords", "done"}
            /\ cl.pc = "done" => (cl.ret = NilSlice /\ ~cl.err.nil)

\* GetRecords has returned on a Provider with a valid endpoint and credentials.
C6_Witness ==
    \E c \in DOMAIN calls :
        /\ calls[c].op = "GetRecords" /\ calls[c].pc = "done"
        /\ ValidEndpoint /\ provider.Username # <<>>

\* The action the specification gives each batch operation.
ActionOf(op) == IF op = "DeleteRecords" THEN <<"cleanup">> ELSE <<"present">>

\* <endpoint>/<action>, as the specification writes the target of a request.
ClaimedURL(endpoint, action) == TrimRight(endpoint, "/") \o <<"/">> \o action

\* A call as its caller starts it.
Start(op, zone, records) ==
    [IdleCall EXCEPT !.pc = op, !.op = op, !.zone = zone, !.records = records]

\* The call cl run to its end on its own, Do answering with resps in order.
RECURSIVE Alone(_, _, _)
Alone(cl, p, resps) ==
    IF cl.pc = "GetRecords" THEN Alone(getRecords(cl), p, resps)
    ELSE IF cl.pc = "AppendRecords" THEN Alone(appendRecords(cl), p, resps)
    ELSE IF cl.pc = "SetRecords" THEN Alone(setRecords(cl), p, resps)
    ELSE IF cl.pc = "DeleteRecords" THEN Alone(deleteRecords(cl), p, resps)
    ELSE IF cl.pc = "doActions" THEN Alone(doActionsEnter(cl, p), p, resps)
    ELSE IF cl.pc = "loop" THEN Alone(doActionsNext(cl, p), p, resps)
    ELSE IF cl.pc = "Do" /\ resps # <<>>
         THEN Alone(doActionsResume(cl, Head(resps)), p, Tail(resps))
    ELSE cl

\* AppendRecords and SetRecords of the same batch, given the same answers, end
\* with the same requests, list and error.
AppendIsSet(cl) ==
    (cl.pc = "done" /\ cl.op \in {"AppendRecords", "SetRecords"}) =>
        LET other == Alone(Start(IF cl.op = "SetRecords" THEN "AppendRecords"
                                 ELSE "SetRecords", cl.zone, cl.records),
                           provider, cl.resps)
        IN other.sent = cl.sent /\ other.ret = cl.ret /\ other.err = cl.err

\* C7: AppendRecords and SetRecords behave alike and send every request to
\* <endpoint>/present; DeleteRecords sends every request to
\* <endpoint>/cleanup; all requests of one call go to the same target.
C7_ActionPaths ==
    \A c \in DOMAIN calls :
        LET cl == calls[c] IN
        Batch(cl) =>
            /\ \A j \in 1..Len(cl.sent) :
                  cl.sent[j].URL = ClaimedURL(provider.Endpoint, ActionOf(cl.op))
            /\ \A i, j \in 1..Len(cl.sent) : cl.sent[i].URL = cl.sent[j].URL
            /\ AppendIsSet(cl)

\* What is left of C7 when the endpoint is an opaque URL (a scheme followed
\* by no "/"): it holds for every other endpoint, and for the opaque endpoint
\* too but for the target of the requests.
C7_ButForOpaqueEndpoints ==
    \A c \in DOMAIN calls :
        LET cl == calls[c] IN
        Batch(cl) =>
            /\ ParseRequestURI(provider.Endpoint).Opaque = <<>> =>
                  \A j \in 1..Len(cl.sent) :
                      cl.sent[j].URL = ClaimedURL(provider.Endpoint, ActionOf(cl.op))
            /\ \A i, j \in 1..Len(cl.sent) : cl.sent[i].URL = cl.sent[j].URL
            /\ AppendIsSet(cl)

\* C8 as the specification states it, for the batch operations: every error
\* a call returns names the action and the record being processed.  (The
\* error of GetRecords names neither as well.)
C8_EveryErrorNamesActionAndRecord ==
    \A c \in DOMAIN calls :
        LET cl == calls[c] IN
        (Batch(cl) /\ cl.pc = "done" /\ ~cl.err.nil) =>
            /\ cl.action # <<>>
            /\ Contains(cl.err.msg, cl.action)
            /\ \E j \in 1..Len(cl.records) :
                  Contains(cl.err.msg, Quote(cl.records[j].Name))

\* C8, amended: the error a batch operation returns for a failed record starts
\* with the action and the record's name, and names the status code when the
\* proxy answered with another status than 200; the error for an invalid
\* endpoint names the endpoint and no action, and the error of GetRecords is a
\* fixed text.
C8_RecordErrorsNameActionAndRecord ==
    \A c \in DOMAIN calls :
        LET cl == calls[c]
            k == Len(cl.ret.recs) + 1
        IN (cl.pc = "done" /\ ~cl.err.nil) =>
            IF cl.op = "GetRecords"
            THEN cl.err.msg = <<"ACMEProxy provider does not support listing records">>
            ELSE IF ~ValidEndpoint
            THEN /\ Contains(cl.err.msg, <<"[">> \o provider.Endpoint \o <<"]">>)
                 /\ ~Contains(cl.err.msg, ActionOf(cl.op))
            ELSE /\ k <= Len(cl.records)
                 /\ HasPrefix(cl.err.msg,
                        <<"ACMEProxy provider could not ">> \o ActionOf(cl.op)
                        \o <<" record ">> \o Quote(cl.records[k].Name) \o <<": ">>)
                 /\ (k <= Len(cl.resps) /\ ~cl.resps[k].err /\ cl.resps[k].status # 200) =>
                        Contains(cl.err.msg, Digits(cl.resps[k].status))

\* The proxy answered the second record of a batch with 500; the error names
\* the record and the 500.
C8_Witness ==
    \E c \in DOMAIN calls :
        LET cl == calls[c] IN
        /\ Batch(cl) /\ cl.pc = "done" /\ Len(cl.ret.recs) = 1
        /\ Len(cl.resps) = 2 /\ ~cl.resps[2].err /\ cl.resps[2].status = 500
        /\ cl.records[2].Name # cl.records[1].Name
        /\ Contains(cl.err.msg, Quote(cl.records[2].Name))
        /\ Contains(cl.err.msg, <<"5", "0", "0">>)

\* A finished call is as it would be had it run alone with the same answers.
Isolated ==
    \A c \in DOMAIN calls :
        LET cl == calls[c] IN
        cl.pc = "done" => cl = Alone(Start(cl.op, cl.zone, cl.records), provider, cl.resps)

\* A step changes the state of one call only.
OwnStateOnly ==
    \A c, d \in DOMAIN calls :
        (c # d /\ calls'[c] # calls[c]) => calls'[d] = calls[d]

\* C9: calls running concurrently on one Provider do not interfere: each ends
\* as it would alone, a step of one call leaves the other as it is, and no
\* step changes the Provider.
C9_NoInterference ==
    /\ []Isolated
    /\ [][OwnStateOnly]_vars
    /\ [][provider' = provider]_vars

\* Both calls have a request in flight with the default client, on the
\* Provider without an HTTPClient, one of them after a completed record.
C9_Witness ==
    /\ provider.HTTPClient = Nil
    /\ calls[1].client = DefaultClient /\ calls[2].client = DefaultClient
    /\ calls[1].pc = "Do" /\ calls[2].pc = "Do"
    /\ Len(calls[1].completedRecords) = 1
    /\ calls[1].op # calls[2].op

\* C10: the requests of a call are those of a prefix of its records, in input
\* order and one for each; a request is sent only when every earlier one has
\* been answered and validated, so the requests sent exceed the completed
\* records by at most one.
C10_OneRequestPerRecordInOrder ==
    \A c \in DOMAIN calls :
        LET cl == calls[c] IN
        /\ Len(cl.sent) <= Len(cl.records)
        /\ \A j \in 1..Len(cl.sent) :
              /\ cl.sent[j].Method = "POST"
              /\ cl.sent[j].Body = Encode([FQDN |-> AbsoluteName(cl.records[j].Name, cl.zone),
                                           Value |-> cl.records[j].Value])
        /\ Len(cl.sent) <= Len(cl.completedRecords) + 1
        /\ Len(cl.completedRecords) <= Len(cl.resps)
        /\ Len(cl.sent) = Len(cl.resps) + (IF cl.pc = "Do" THEN 1 ELSE 0)

\* The third request of a batch is in flight after two completed records.
C10_Witness ==
    \E c \in DOMAIN calls :
        LET cl == calls[c] IN
        /\ cl.pc = "Do" /\ Len(cl.sent) = 3 /\ Len(cl.completedRecords) = 2
        /\ cl.sent[1].Body # cl.sent[2].Body


====
